---- MODULE Spec2Model ----
(***************************************************************************)
(* Trading simulator (src/tradingsimulator.py): the browser-side portfolio *)
(* store (buyStock, sellStock, the 10-second timer) and the Flask handler  *)
(* of POST /get_portfolio_chart with its process-lifetime history log.     *)
(*                                                                         *)
(* Numbers.  Every number of the client is a JavaScript Number and every   *)
(* number of the server a Python float: IEEE-754 binary64 on both sides.   *)
(* A finite non-negative number is held here exactly, as the natural       *)
(* number of units of 2^-FracBits it is worth, written in NLimbs limbs of  *)
(* LimbBits bits, least significant limb first; NaN is the empty tuple.    *)
(* Every binary64 value that is 0 or at least 2^(MantBits-1-FracBits) = 16 *)
(* is a whole number of such units, and sums, differences and products by  *)
(* whole numbers of such values are again whole numbers of units, so with  *)
(* prices of at least 16 nothing is lost.  Each arithmetic operation is    *)
(* the exact operation followed by rounding to MantBits significant bits,  *)
(* ties to even, as IEEE-754 prescribes.  The program never produces a     *)
(* negative number from non-negative prices (each subtraction is guarded   *)
(* or yields NaN), so no sign is kept.                                     *)
(***************************************************************************)
EXTENDS Integers, Sequences, FiniteSets, TLC

\* ---------------------------------------------------------------- numbers

MantBits == 53
LimbBits == 16
Base == 2 ^ LimbBits
NLimbs == 5
FracLimbs == NLimbs - 2
FracBits == FracLimbs * LimbBits

NaN == <<>>
IsNaN(x) == x = NaN
Zero == [i \in 1..NLimbs |-> 0]

\* The whole number n (0 <= n < Base^2) as a number.
FromInt(n) == [i \in 1..NLimbs |->
                 IF i = FracLimbs + 1 THEN n % Base
                 ELSE IF i = FracLimbs + 2 THEN n \div Base ELSE 0]

\* The whole part of a number (below 2^31 in every use).
IntPart(a) == a[FracLimbs + 1] + Base * a[FracLimbs + 2]

\* Whether a number is whole.
IsWhole(a) == \A i \in 1..FracLimbs : a[i] = 0

BigLess(a, b) ==
  \E i \in 1..NLimbs : a[i] < b[i] /\ \A j \in (i+1)..NLimbs : a[j] = b[j]

RECURSIVE AddLimbs(_, _, _, _)
AddLimbs(a, b, i, carry) ==
  IF i > NLimbs THEN <<>>
  ELSE LET s == a[i] + b[i] + carry
       IN  <<s % Base>> \o AddLimbs(a, b, i + 1, s \div Base)

BigAdd(a, b) == AddLimbs(a, b, 1, 0)

RECURSIVE SubLimbs(_, _, _, _)
SubLimbs(a, b, i, borrow) ==
  IF i > NLimbs THEN <<>>
  ELSE LET d == a[i] - b[i] - borrow
       IN  IF d < 0 THEN <<d + Base>> \o SubLimbs(a, b, i + 1, 1)
           ELSE <<d>> \o SubLimbs(a, b, i + 1, 0)

\* a - b for b <= a.
BigSub(a, b) == SubLimbs(a, b, 1, 0)

RECURSIVE MulLimbs(_, _, _, _)
MulLimbs(a, n, i, carry) ==
  IF i > NLimbs THEN <<>>
  ELSE LET s == a[i] * n + carry
       IN  <<s % Base>> \o MulLimbs(a, n, i + 1, s \div Base)

\* a * n for a whole n, 0 <= n < 2^14.
BigMulSmall(a, n) == MulLimbs(a, n, 1, 0)

\* The quotient (limbs) and the remainder of a by a whole d, 0 < d < 2^14:
\* schoolbook division from the most significant limb down.
RECURSIVE DivLimbs(_, _, _, _)
DivLimbs(a, d, i, rem) ==
  IF i = 0 THEN [q |-> <<>>, r |-> rem]
  ELSE LET cur  == rem * Base + a[i]
           rest == DivLimbs(a, d, i - 1, cur % d)
       IN  [q |-> rest.q \o <<cur \div d>>, r |-> rest.r]

BigDivSmall(a, d) ==
  LET s == DivLimbs(a, d, NLimbs, 0) IN [q |-> [i \in 1..NLimbs |-> s.q[i]], r |-> s.r]

\* The number of significant bits of a limb, and of a number.
RECURSIVE LimbBitLen(_)
LimbBitLen(x) == IF x = 0 THEN 0 ELSE 1 + LimbBitLen(x \div 2)

RECURSIVE TopBit(_, _)
TopBit(a, i) ==
  IF i = 0 THEN 0
  ELSE IF a[i] # 0 THEN LimbBits * (i - 1) + LimbBitLen(a[i])
  ELSE TopBit(a, i - 1)

BitLen(a) == TopBit(a, NLimbs)

\* 2^k units, and the k low bits of a.
Pow2(k) == [i \in 1..NLimbs |->
              IF k \div LimbBits = i - 1 THEN 2 ^ (k % LimbBits) ELSE 0]

LowBits(a, k) == [i \in 1..NLimbs |->
                    IF LimbBits * i <= k THEN a[i]
                    ELSE IF LimbBits * (i - 1) < k
                         THEN a[i] % (2 ^ (k - LimbBits * (i - 1)))
                         ELSE 0]

BitAt(a, k) == (a[(k \div LimbBits) + 1] \div (2 ^ (k % LimbBits))) % 2

\* IEEE-754 rounding of the exact value a (plus a positive amount below one
\* unit when sticky) to `bits` significant bits, round to nearest, ties to even.
RoundBits(a, sticky, bits) ==
  LET k == BitLen(a) - bits
  IN  IF k <= 0 THEN a
      ELSE LET low   == LowBits(a, k)
               half  == Pow2(k - 1)
               trunc == [i \in 1..NLimbs |-> a[i] - low[i]]
               up    == \/ BigLess(half, low)
                        \/ low = half /\ (sticky \/ BitAt(a, k) = 1)
           IN  IF up THEN BigAdd(trunc, Pow2(k)) ELSE trunc

Round53(a) == RoundBits(a, FALSE, MantBits)

\* The exact quotient a / d (d whole, 0 < d < 2^14) rounded to binary64; exact
\* for quotients of at least 2^(MantBits - FracBits), as all quotients here are.
DivRound(a, d) ==
  LET s == BigDivSmall(a, d) IN RoundBits(s.q, s.r # 0, MantBits)

\* The binary64 value nearest to c / 100: what parsing the decimal numeral of
\* an amount of c cents yields.
FromCents(c) == DivRound(FromInt(c), 100)

\* a * 100 rounded to a whole number of cents: ties to even (Python's round)
\* or ties upward (JavaScript's toFixed).
CentsOf(a, tiesUp) ==
  LET h    == BigMulSmall(a, 100)
      frac == LowBits(h, FracBits)
      half == Pow2(FracBits - 1)
      n    == IntPart(h)
  IN  IF BigLess(half, frac) \/ (frac = half /\ (tiesUp \/ n % 2 = 1))
      THEN n + 1 ELSE n

\* ---------------------------------------------- JavaScript / Python numbers

\* x is falsy (0 or NaN) or truthy: `!price`, `data.price || 0`,
\* `holding.currentPrice || holding.avg_price`.
Truthy(x) == ~IsNaN(x) /\ x # Zero

\* x < y; every comparison with NaN is false.
JsLess(x, y) == ~IsNaN(x) /\ ~IsNaN(y) /\ BigLess(x, y)

JsAdd(x, y) == IF IsNaN(x) \/ IsNaN(y) THEN NaN ELSE Round53(BigAdd(x, y))

\* x - y; the program subtracts only where y <= x or an operand is NaN.
JsSub(x, y) == IF IsNaN(x) \/ IsNaN(y) THEN NaN ELSE Round53(BigSub(x, y))

\* x * y where one factor is a whole number (a quantity), as in every product
\* of the program.
JsMul(x, y) ==
  IF IsNaN(x) \/ IsNaN(y) THEN NaN
  ELSE IF IsWhole(y) THEN Round53(BigMulSmall(x, IntPart(y)))
  ELSE Round53(BigMulSmall(y, IntPart(x)))

\* x / y for a whole, positive y (a sum of quantities).
JsDiv(x, y) == IF IsNaN(x) \/ IsNaN(y) THEN NaN ELSE DivRound(x, IntPart(y))

\* Number.prototype.toFixed(2): the text shown, as <<cents>>, or <<>> for "NaN".
ToFixed2(x) == IF IsNaN(x) THEN <<>> ELSE <<CentsOf(x, TRUE)>>

\* ------------------------------------------------------------------ inputs

MaxTrades == 2
MaxRequests == 2
InitialCash == 10000
OkStatus == 200

\* What the symbol fields may hold, and String.toUpperCase.
SymbolTexts == {"", "random", "AAPL"}
toUpperCase(t) == IF t = "random" THEN "RANDOM" ELSE t

\* What the trade form's quantity field (type="number") may hold: nothing, or
\* a numeral.  parseInt yields <<n>>, or <<>> for NaN.
Numerals == [t \in {"0", "-5", "5", "10"} |->
               CASE t = "0" -> 0 [] t = "-5" -> 0 - 5 [] t = "5" -> 5 [] t = "10" -> 10]
QuantityTexts == {""} \cup DOMAIN Numerals
parseInt(t) == IF t \in DOMAIN Numerals THEN <<Numerals[t]>> ELSE <<>>
NumberOf(q) == IF q = <<>> THEN NaN ELSE FromInt(q[1])

\* Prices, in cents, the price oracle hands out: for RANDOM a value of
\* [90.00, 110.00]; for a real symbol the last close, or 0 when there is none.
RandomCents == {10000, 10243}
StockCents == {10243}

\* GET /get_stock_price/<symbol>: the responses the client may see (the route's
\* answers, and a response that is not a 200).
api_get_stock_price(symbol) ==
  {[status |-> OkStatus, price |-> c] :
     c \in IF symbol = "RANDOM" THEN RandomCents ELSE StockCents \cup {0}}
  \cup {[status |-> 503, price |-> 0]}

\* GET /get_stock_price_chart/<symbol>: "" for RANDOM, for an empty history and
\* on an error; a chart otherwise.
api_get_stock_price_chart(symbol) ==
  IF symbol = "RANDOM" THEN {""} ELSE {"", "chart"}

\* ------------------------------------------------------------------- state

VARIABLES
  cash,               \* portfolio.cash
  stocks,             \* portfolio.stocks: the holdings, in insertion order
  table,              \* the rendered portfolio table and cash amount
  stockView,          \* the price text and chart of the looked-up symbol
  chartSrc,           \* the portfolio chart image: the series drawn, <<>> if none
  nTrades,            \* trades done, to bound the model
  portfolio_history,  \* the server's history log
  requests            \* the POST /get_portfolio_chart requests, by arrival

vars == <<cash, stocks, table, stockView, chartSrc, nTrades, portfolio_history, requests>>
client == <<cash, stocks, table, stockView, chartSrc, nTrades>>

\* ------------------------------------------------------------------ client

\* The index of symbol's holding in the insertion-ordered holdings, or 0.
Held(s, symbol) ==
  IF \E i \in 1..Len(s) : s[i].symbol = symbol
  THEN CHOOSE i \in 1..Len(s) : s[i].symbol = symbol
  ELSE 0

Remove(s, i) == [j \in 1..(Len(s) - 1) |-> IF j < i THEN s[j] ELSE s[j + 1]]

\* JSON.parse of a price response's numeral, for each price there is.
Parsed == [c \in RandomCents \cup StockCents \cup {0} |-> FromCents(c)]

fetchCurrentPrice(resp) ==
  IF resp.status = OkStatus
  THEN IF Truthy(Parsed[resp.price]) THEN Parsed[resp.price] ELSE Zero
  ELSE Zero

\* The price a table row shows for a holding.
RowPrice(h) == IF Truthy(h.currentPrice) THEN h.currentPrice ELSE h.avg_price

\* The rendered table rows and cash amount.
updatePortfolioTable(c, s) ==
  [rows |-> [i \in 1..Len(s) |->
               [symbol   |-> s[i].symbol,
                quantity |-> s[i].quantity,
                avg      |-> ToFixed2(s[i].avg_price),
                price    |-> ToFixed2(RowPrice(s[i])),
                value    |-> ToFixed2(JsMul(RowPrice(s[i]), s[i].quantity))]],
   cashAmount |-> ToFixed2(c)]

\* Line 281: what a purchase costs.
TotalCost(price, quantity) == JsMul(price, quantity)

\* A sale that brings the price of one share whatever the quantity.
SaleProceedsOfOneShare(price, quantity) == price

\* Line 318: what a sale brings.
SaleProceeds(price, quantity) == JsMul(price, quantity)

\* An average that gives the old and the new price equal weight.
NewAvgUnweighted(oldQty, oldAvg, quantity, price) ==
  JsDiv(JsAdd(oldAvg, price), FromInt(2))

\* Line 290: the average price of a holding after a further purchase.
NewAvg(oldQty, oldAvg, quantity, price) ==
  JsDiv(JsAdd(JsMul(oldQty, oldAvg), JsMul(quantity, price)), JsAdd(oldQty, quantity))

\* A handler's return before any mutation, after alert(msg).
Refused(c, s, msg) == [cash |-> c, stocks |-> s, alert |-> msg, done |-> FALSE]

\* buyStock on portfolio (c, s) with the form fields st, qt and the price
\* response resp: the portfolio it leaves and the alert it shows.
buyStock(c, s, st, qt, resp) ==
  LET symbol    == toUpperCase(st)
      q         == parseInt(qt)
      quantity  == NumberOf(q)
      price     == fetchCurrentPrice(resp)
      totalCost == TotalCost(price, quantity)
      i         == Held(s, symbol)
      oldQty    == s[i].quantity
      oldAvg    == s[i].avg_price
      newAvg    == NewAvg(oldQty, oldAvg, quantity, price)
  IN  IF symbol = "" \/ (q # <<>> /\ q[1] <= 0) THEN Refused(c, s, "Invalid input.")
      ELSE IF ~Truthy(price)
      THEN Refused(c, s, "Stock not found or price unavailable.")
      ELSE IF JsLess(c, totalCost) THEN Refused(c, s, "Insufficient funds.")
      ELSE [cash   |-> JsSub(c, totalCost),
            stocks |-> IF i # 0
                       THEN [s EXCEPT ![i] = [symbol       |-> symbol,
                                              quantity     |-> JsAdd(oldQty, quantity),
                                              avg_price    |-> newAvg,
                                              currentPrice |-> price]]
                       ELSE Append(s, [symbol       |-> symbol,
                                       quantity     |-> quantity,
                                       avg_price    |-> price,
                                       currentPrice |-> price]),
            alert  |-> "Bought",
            done   |-> TRUE]

\* sellStock likewise.
sellStock(c, s, st, qt, resp) ==
  LET symbol   == toUpperCase(st)
      q        == parseInt(qt)
      quantity == NumberOf(q)
      price    == fetchCurrentPrice(resp)
      i        == Held(s, symbol)
      left     == JsSub(s[i].quantity, quantity)
  IN  IF symbol = "" \/ (q # <<>> /\ q[1] <= 0) THEN Refused(c, s, "Invalid input.")
      ELSE IF i = 0 \/ JsLess(s[i].quantity, quantity)
      THEN Refused(c, s, "Not enough shares to sell.")
      ELSE IF ~Truthy(price)
      THEN Refused(c, s, "Stock not found or price unavailable.")
      ELSE [cash   |-> JsAdd(c, SaleProceeds(price, quantity)),
            stocks |-> IF left = Zero THEN Remove(s, i)
                       ELSE [s EXCEPT ![i].quantity = left],
            alert  |-> "Sold",
            done   |-> TRUE]

\* The alerts that report a refusal.
Failures == {"Invalid input.", "Stock not found or price unavailable.",
             "Insufficient funds.", "Not enough shares to sell."}

\* A click on Buy Stock with the form holding st and qt and the price lookup
\* answering resp.  The alert is output, not state.
Buy(st, qt, resp) ==
  \E r \in {buyStock(cash, stocks, st, qt, resp)} :
      /\ r.done => nTrades < MaxTrades
      /\ cash' = r.cash
      /\ stocks' = r.stocks
      /\ table' = IF r.done THEN updatePortfolioTable(r.cash, r.stocks) ELSE table
      /\ nTrades' = IF r.done THEN nTrades + 1 ELSE nTrades
      /\ UNCHANGED <<stockView, chartSrc, portfolio_history, requests>>

\* A click on Sell Stock.
Sell(st, qt, resp) ==
  \E r \in {sellStock(cash, stocks, st, qt, resp)} :
      /\ r.done => nTrades < MaxTrades
      /\ cash' = r.cash
      /\ stocks' = r.stocks
      /\ table' = IF r.done THEN updatePortfolioTable(r.cash, r.stocks) ELSE table
      /\ nTrades' = IF r.done THEN nTrades + 1 ELSE nTrades
      /\ UNCHANGED <<stockView, chartSrc, portfolio_history, requests>>

\* The price lookup is made only once the checks before it have passed.
NoLookup == [status |-> 0, price |-> 0]

BuyLookups(st, qt) ==
  IF buyStock(cash, stocks, st, qt, NoLookup).alert = "Invalid input."
  THEN {NoLookup} ELSE api_get_stock_price(toUpperCase(st))

SellLookups(st, qt) ==
  IF sellStock(cash, stocks, st, qt, NoLookup).alert
       \in {"Invalid input.", "Not enough shares to sell."}
  THEN {NoLookup} ELSE api_get_stock_price(toUpperCase(st))

BuyStep ==
  \E st \in SymbolTexts, qt \in QuantityTexts :
    \E resp \in BuyLookups(st, qt) : Buy(st, qt, resp)

SellStep ==
  \E st \in SymbolTexts, qt \in QuantityTexts :
    \E resp \in SellLookups(st, qt) : Sell(st, qt, resp)

\* getStockData with the symbol field holding st, the price route answering
\* resp and the chart route answering chart: the price text and chart shown.
getStockData(view, st, resp, chart) ==
  IF toUpperCase(st) = "" THEN view
  ELSE IF resp.price # 0
  THEN [text |-> "Stock Price", cents |-> resp.price, chart |-> chart]
  ELSE [view EXCEPT !.text = "Stock not found.", !.cents = 0]

GetStockData ==
  \E st \in SymbolTexts :
    \E resp \in {r \in api_get_stock_price(toUpperCase(st)) : r.status = OkStatus},
       chart \in api_get_stock_price_chart(toUpperCase(st)) :
      /\ stockView' = getStockData(stockView, st, resp, chart)
      /\ UNCHANGED <<cash, stocks, table, chartSrc, nTrades, portfolio_history, requests>>

\* ------------------------------------------------------------------ server

\* JSON null, Python None: what JSON.stringify writes for NaN.
None == NaN

\* JSON.stringify(portfolio) as request.get_json() returns it.
Stringify(c, s) ==
  [kind  |-> "object",
   value |-> [cash   |-> c,
              stocks |-> [i \in 1..Len(s) |->
                            [symbol |-> s[i].symbol,
                             data   |-> [quantity     |-> s[i].quantity,
                                         avg_price    |-> s[i].avg_price,
                                         currentPrice |-> s[i].currentPrice]]]]]

\* The price the server values a holding at: data.get("currentPrice", avg_price).
ServerPrice(data) ==
  IF "currentPrice" \in DOMAIN data THEN data.currentPrice ELSE data.avg_price

\* The loop of compute_local_portfolio_value from item i on: the total, or
\* raised (a KeyError on a missing key, a TypeError on None).
RECURSIVE SumHoldings(_, _, _)
SumHoldings(items, i, total) ==
  IF i > Len(items) THEN [raised |-> FALSE, total |-> total]
  ELSE LET data == items[i].data
       IN  IF "avg_price" \notin DOMAIN data \/ "quantity" \notin DOMAIN data
           THEN [raised |-> TRUE]
           ELSE IF ServerPrice(data) = None \/ data.quantity = None \/ total = None
           THEN [raised |-> TRUE]
           ELSE SumHoldings(items, i + 1,
                            JsAdd(total, JsMul(ServerPrice(data), data.quantity)))

\* round(total, 2)
Round2(x) == FromCents(CentsOf(x, FALSE))

compute_local_portfolio_value(lp) ==
  IF "cash" \notin DOMAIN lp \/ "stocks" \notin DOMAIN lp THEN [raised |-> TRUE]
  ELSE LET r == SumHoldings(lp.stocks, 1, lp.cash)
       IN  IF r.raised \/ r.total = None THEN [raised |-> TRUE]
           ELSE [raised |-> FALSE, val |-> Round2(r.total)]

\* Each request carries the place it has reached in its handler.  A sample of
\* the log is (now, val); the instant a request reads from datetime.now() is
\* named by the request.
EmptyChart == [status |-> OkStatus, chart |-> <<>>]
ServerError == [status |-> 500, chart |-> <<>>]

NewRequest(json) ==
  [pc |-> "received", json |-> json, val |-> Zero,
   times |-> <<>>, values |-> <<>>, response |-> EmptyChart]

\* getPortfolioChart: the request the page posts for portfolio (c, s).
getPortfolioChart(c, s) == NewRequest(Stringify(c, s))

\* Lines 427-430: the body is read and valued.
Compute(req) ==
  IF req.json.kind = "none" \/ DOMAIN req.json.value = {}
  THEN [req EXCEPT !.pc = "done", !.response = EmptyChart]
  ELSE LET r == compute_local_portfolio_value(req.json.value)
       IN  IF r.raised THEN [req EXCEPT !.pc = "done", !.response = ServerError]
           ELSE [req EXCEPT !.pc = "computed", !.val = r.val]

\* A log that keeps only the latest sample.
KeepLatestSample(log, id, req) == <<[now |-> id, val |-> req.val]>>

\* Lines 431-432: the sample is appended.
AppendSample(log, id, req) == Append(log, [now |-> id, val |-> req.val])

\* strftime("%H:%M:%S"): the clock read to the second.  Instants 2n-1 and 2n
\* fall within second n, so two samples may carry one label.
strftime(now) == (now + 1) \div 2

\* Lines 433 and 434: the two passes over the log.
ReadTimes(log, req) ==
  [req EXCEPT !.pc = "times", !.times = [i \in 1..Len(log) |-> strftime(log[i].now)]]

ReadValues(log, req) ==
  [req EXCEPT !.pc = "values", !.values = [i \in 1..Len(log) |-> log[i].val]]

\* Lines 436-452: ax.plot(times, values) raises when the two differ in
\* length; otherwise the chart of the series is the response.
Render(req) ==
  IF Len(req.times) # Len(req.values)
  THEN [req EXCEPT !.pc = "done", !.response = ServerError]
  ELSE [req EXCEPT !.pc = "done",
                   !.response = [status |-> OkStatus,
                                 chart  |-> [i \in 1..Len(req.values) |->
                                               <<req.times[i], req.values[i]>>]]]

\* The whole handler, run without another request in between.
get_portfolio_chart(log, id, req) ==
  LET c == Compute(req)
  IN  IF c.pc = "done" THEN [log |-> log, req |-> c]
      ELSE LET log2 == AppendSample(log, id, c)
           IN  [log |-> log2, req |-> Render(ReadValues(log2, ReadTimes(log2, c)))]

\* A timer callback that gives every holding the price looked up for RANDOM.
setIntervalEveryHolding(s, resp) ==
  [i \in 1..Len(s) |-> [s[i] EXCEPT !.currentPrice = fetchCurrentPrice(resp)]]

\* The timer callback: RANDOM's price is refreshed if held and the table
\* rendered again; then getPortfolioChart posts the portfolio (output).
setInterval(s, resp) ==
  LET i == Held(s, "RANDOM")
  IN  IF i # 0 THEN [s EXCEPT ![i].currentPrice = fetchCurrentPrice(resp)] ELSE s

TimerTick ==
  /\ UNCHANGED <<cash, stockView, chartSrc, nTrades, portfolio_history, requests>>
  /\ \E resp \in api_get_stock_price("RANDOM") :
       /\ stocks' = setInterval(stocks, resp)
       /\ table' = IF Held(stocks, "RANDOM") # 0
                   THEN updatePortfolioTable(cash, stocks') ELSE table

\* The responses POST /get_portfolio_chart may give the page: the empty chart,
\* or a chart, here that of the first request of a page that has not traded.
ChartResponses ==
  {EmptyChart,
   get_portfolio_chart(<<>>, 1, getPortfolioChart(FromInt(InitialCash), <<>>)).req.response}

\* The page receives the response to a chart request: the image is set.
ReceiveChart ==
  \E resp \in ChartResponses :
    /\ chartSrc' = resp.chart
    /\ UNCHANGED <<cash, stocks, table, stockView, nTrades, portfolio_history, requests>>

\* Bodies another HTTP client may post.
OtherBodies ==
  { [kind |-> "none"],
    [kind |-> "object", value |-> <<>>],
    [kind |-> "object", value |-> [stocks |-> <<>>]],
    [kind |-> "object", value |-> [cash |-> FromInt(InitialCash)]],
    [kind |-> "object",
     value |-> [cash |-> Zero,
                stocks |-> <<[symbol |-> "AAPL", data |-> [avg_price |-> FromInt(100)]]>>]],
    [kind |-> "object",
     value |-> [cash |-> Zero,
                stocks |-> <<[symbol |-> "AAPL", data |-> [quantity |-> FromInt(10)]]>>]],
    [kind |-> "object",
     value |-> [cash |-> FromInt(InitialCash - 1000),
                stocks |-> <<[symbol |-> "RANDOM",
                              data |-> [quantity |-> FromInt(10),
                                        avg_price |-> FromInt(100)]]>>]] }

\* A request arrives: the page's, or another client's.
Post ==
  /\ Len(requests) < MaxRequests
  /\ \E req \in {getPortfolioChart(cash, stocks)} \cup {NewRequest(b) : b \in OtherBodies} :
       requests' = Append(requests, req)
  /\ UNCHANGED <<client, portfolio_history>>

\* A request is handled from start to end.
Serve ==
  \E id \in 1..Len(requests) :
    /\ requests[id].pc = "received"
    /\ LET r == get_portfolio_chart(portfolio_history, id, requests[id])
       IN  /\ portfolio_history' = r.log
           /\ requests' = [requests EXCEPT ![id] = r.req]
    /\ UNCHANGED client

\* The handler step by step, for requests handled concurrently.
ComputeStep ==
  \E id \in 1..Len(requests) :
    /\ requests[id].pc = "received"
    /\ requests' = [requests EXCEPT ![id] = Compute(@)]
    /\ UNCHANGED <<client, portfolio_history>>

AppendStep ==
  \E id \in 1..Len(requests) :
    /\ requests[id].pc = "computed"
    /\ portfolio_history' = AppendSample(portfolio_history, id, requests[id])
    /\ requests' = [requests EXCEPT ![id].pc = "appended"]
    /\ UNCHANGED client

ReadTimesStep ==
  \E id \in 1..Len(requests) :
    /\ requests[id].pc = "appended"
    /\ requests' = [requests EXCEPT ![id] = ReadTimes(portfolio_history, @)]
    /\ UNCHANGED <<client, portfolio_history>>

ReadValuesStep ==
  \E id \in 1..Len(requests) :
    /\ requests[id].pc = "times"
    /\ requests' = [requests EXCEPT ![id] = ReadValues(portfolio_history, @)]
    /\ UNCHANGED <<client, portfolio_history>>

RenderStep ==
  \E id \in 1..Len(requests) :
    /\ requests[id].pc = "values"
    /\ requests' = [requests EXCEPT ![id] = Render(@)]
    /\ UNCHANGED <<client, portfolio_history>>

\* ---------------------------------------------------------- specifications

Init ==
  /\ cash = FromInt(InitialCash)
  /\ stocks = <<>>
  /\ table = updatePortfolioTable(FromInt(InitialCash), <<>>)
  /\ stockView = [text |-> "", cents |-> 0, chart |-> ""]
  /\ chartSrc = <<>>
  /\ nTrades = 0
  /\ portfolio_history = <<>>
  /\ requests = <<>>

\* The page.
Next == BuyStep \/ SellStep \/ TimerTick \/ GetStockData \/ ReceiveChart

Spec == Init /\ [][Next]_vars

\* The portfolio store alone: the operations of the page that read or write
\* cash and the holdings.  getStockData and the arrival of a chart touch
\* neither, so the portfolios reached are those of Spec.
StoreNext == BuyStep \/ SellStep \/ TimerTick

StoreSpec == Init /\ [][StoreNext]_vars

\* The server, its requests handled one after another.
SeqNext == Post \/ Serve

SeqSpec == Init /\ [][SeqNext]_vars

\* The server, its requests handled concurrently.
ConcNext ==
  Post \/ ComputeStep \/ AppendStep \/ ReadTimesStep \/ ReadValuesStep \/ RenderStep

ConcSpec == Init /\ [][ConcNext]_vars

\* ------------------------------------------------------------------ claims

\* One unit in the last place of the binary64 value a, in units.
Ulp(a) == IF BitLen(a) <= MantBits THEN Pow2(0) ELSE Pow2(BitLen(a) - MantBits)

\* The quantity the form holds reads as a number greater than 0.
PositiveQuantity(qt) == parseInt(qt) # <<>> /\ parseInt(qt)[1] > 0

\* A looked-up price is greater than 0.
PositivePrice(resp) == JsLess(Zero, fetchCurrentPrice(resp))

\* The conditions under which a Buy, and a Sell, is to be refused.
BuyMustRefuse(st, qt, resp) ==
  \/ ~PositiveQuantity(qt)
  \/ ~PositivePrice(resp)
  \/ JsLess(cash, JsMul(fetchCurrentPrice(resp), NumberOf(parseInt(qt))))

SellMustRefuse(st, qt, resp) ==
  \/ ~PositiveQuantity(qt)
  \/ Held(stocks, toUpperCase(st)) = 0
  \/ JsLess(stocks[Held(stocks, toUpperCase(st))].quantity, NumberOf(parseInt(qt)))
  \/ ~PositivePrice(resp)

\* C1.  A Buy whose quantity is not greater than 0, whose price is not
\* greater than 0 or whose cost exceeds cash, and a Sell whose quantity is not
\* greater than 0, whose symbol is not held, whose holding is smaller than the
\* quantity or whose price is not greater than 0, leaves cash and holdings as
\* they were and alerts a failure.
C1_RefusedTradeChangesNothing ==
  [][\A st \in SymbolTexts, qt \in QuantityTexts :
       /\ \A resp \in BuyLookups(st, qt) :
            Buy(st, qt, resp) /\ BuyMustRefuse(st, qt, resp)
              => /\ UNCHANGED <<cash, stocks>>
                 /\ buyStock(cash, stocks, st, qt, resp).alert \in Failures
       /\ \A resp \in SellLookups(st, qt) :
            Sell(st, qt, resp) /\ SellMustRefuse(st, qt, resp)
              => /\ UNCHANGED <<cash, stocks>>
                 /\ sellStock(cash, stocks, st, qt, resp).alert \in Failures]_vars

\* A Buy that meets every requirement.
BuyAccepted(st, qt, resp) ==
  /\ toUpperCase(st) # ""
  /\ PositiveQuantity(qt)
  /\ PositivePrice(resp)
  /\ ~JsLess(cash, JsMul(fetchCurrentPrice(resp), NumberOf(parseInt(qt))))

\* avg is, to within two units in the last place a share, the exact quotient
\* (q1*p1 + q2*p2) / (q1 + q2).
NearWeightedMean(avg, q1, p1, q2, p2) ==
  LET shares == IntPart(q1) + IntPart(q2)
      exact  == BigAdd(BigMulSmall(p1, IntPart(q1)), BigMulSmall(p2, IntPart(q2)))
      got    == BigMulSmall(avg, shares)
      slack  == BigMulSmall(Ulp(avg), 2 * shares)
  IN  IF BigLess(got, exact) THEN ~BigLess(slack, BigSub(exact, got))
      ELSE ~BigLess(slack, BigSub(got, exact))

\* C2.  A successful Buy of q2 shares at price p2 takes p2*q2 from cash; of a
\* symbol held with quantity q1 at average p1 it leaves quantity q1+q2 at
\* average (q1*p1 + q2*p2)/(q1+q2), of a symbol not held a holding of q2 at
\* average p2; every other holding stays as it was.
C2_BuyAveragesAndDeducts ==
  \A st \in SymbolTexts, qt \in QuantityTexts :
    \A resp \in api_get_stock_price(toUpperCase(st)) :
      BuyAccepted(st, qt, resp)
        => \E b \in {buyStock(cash, stocks, st, qt, resp)} :
             LET symbol == toUpperCase(st)
                 q2     == NumberOf(parseInt(qt))
                 p2     == fetchCurrentPrice(resp)
                 i      == Held(stocks, symbol)
                 j      == Held(b.stocks, symbol)
                 q1     == stocks[i].quantity
                 p1     == stocks[i].avg_price
             IN  /\ b.done
                 /\ b.cash = JsSub(cash, JsMul(p2, q2))
                 /\ j # 0
                 /\ \A k \in 1..Len(stocks) : k # i => b.stocks[k] = stocks[k]
                 /\ IF i = 0
                    THEN /\ j = Len(stocks) + 1
                         /\ b.stocks[j].quantity = q2
                         /\ b.stocks[j].avg_price = p2
                    ELSE /\ j = i /\ Len(b.stocks) = Len(stocks)
                         /\ b.stocks[j].quantity = JsAdd(q1, q2)
                         /\ b.stocks[j].avg_price
                              = JsDiv(JsAdd(JsMul(q1, p1), JsMul(q2, p2)), JsAdd(q1, q2))
                         /\ ~IsNaN(q1) => NearWeightedMean(b.stocks[j].avg_price,
                                                           q1, p1, q2, p2)

\* Two purchases at different prices have been blended into one holding.
C2_Witness ==
  \E i \in 1..Len(stocks) :
    /\ stocks[i].quantity = FromInt(15)
    /\ \A c \in DOMAIN Parsed : stocks[i].avg_price # Parsed[c]

\* C3.  Every holding of the mapping has a quantity greater than 0.
C3_HoldingsArePositive ==
  \A i \in 1..Len(stocks) : JsLess(Zero, stocks[i].quantity)

\* Whether every Buy the portfolio as it stands accepts, followed at once by
\* the Sell of the same symbol and quantity at the same price, succeeds and
\* leaves a cash that Same(before, after) admits.
RoundTrips(Same(_, _)) ==
  \A st \in SymbolTexts, qt \in QuantityTexts :
    \A resp \in api_get_stock_price(toUpperCase(st)) :
      BuyAccepted(st, qt, resp)
        => \E b \in {buyStock(cash, stocks, st, qt, resp)} :
             /\ b.done
             /\ \E s \in {sellStock(b.cash, b.stocks, st, qt, resp)} :
                  s.done /\ Same(cash, s.cash)

Equal(a, b) == a = b

\* C4 as stated.  A successful Buy of q > 0 shares at p > 0 followed at once by
\* a Sell of q of the same symbol at p returns cash to its value before.
C4_RoundTripRestoresCash == RoundTrips(Equal)

\* a and b are the same binary64 value or neighbours (NaN only with NaN).
WithinUlp(a, b) ==
  IF IsNaN(a) \/ IsNaN(b) THEN a = b
  ELSE IF BigLess(a, b) THEN ~BigLess(Ulp(a), BigSub(b, a))
  ELSE ~BigLess(Ulp(a), BigSub(a, b))

\* C4 amended.  The Sell succeeds and returns cash to within one unit in the
\* last place of its value before the Buy; a cash that is NaN stays NaN.
C4_RoundTripWithinUlp == RoundTrips(WithinUlp)

\* A Buy and then a Sell of the same shares at one price have been made.
C4_Witness ==
  /\ nTrades = 2
  /\ stocks = <<>>
  /\ WithinUlp(FromInt(InitialCash), cash)

\* C9.  Cash is never below 0.
C9_CashNeverNegative == ~IsNaN(cash) /\ ~JsLess(cash, Zero)

\* C7 as stated.  The timer tick, getStockData and the arrival of a portfolio
\* chart leave cash and every holding's quantity, average price and last-seen
\* price as they were.
C7_OnlyTradesMutate ==
  [][(TimerTick \/ GetStockData \/ ReceiveChart) => UNCHANGED <<cash, stocks>>]_vars

\* C7 amended.  getStockData and the arrival of a portfolio chart leave cash
\* and the holdings as they were; the timer tick leaves cash, the symbols held
\* and every holding's quantity and average price as they were and changes no
\* last-seen price but that of RANDOM.
C7_TickOnlyRefreshesRandom ==
  [][<<cash, stocks>>' # <<cash, stocks>>
       => /\ ~GetStockData
          /\ ~ReceiveChart
          /\ TimerTick
               => /\ cash' = cash
                  /\ Len(stocks') = Len(stocks)
                  /\ \A i \in 1..Len(stocks) :
                       /\ stocks'[i].symbol = stocks[i].symbol
                       /\ stocks'[i].quantity = stocks[i].quantity
                       /\ stocks'[i].avg_price = stocks[i].avg_price
                       /\ stocks[i].symbol # "RANDOM"
                            => stocks'[i].currentPrice = stocks[i].currentPrice]_vars

\* After a single purchase of RANDOM and of another symbol, a tick has given
\* RANDOM a last-seen price that is not the price paid.
C7_Witness ==
  /\ Len(stocks) = 2
  /\ nTrades = 2
  /\ \E i \in 1..Len(stocks) :
       /\ stocks[i].symbol = "RANDOM"
       /\ stocks[i].currentPrice # stocks[i].avg_price

\* The sum, in cents, of the values the table's rows show from row i on.
RECURSIVE RowsTotal(_, _)
RowsTotal(rows, i) ==
  IF i > Len(rows) THEN 0 ELSE rows[i].value[1] + RowsTotal(rows, i + 1)

\* C10.  Whenever the server values the portfolio the page would post, the
\* value it records is, to within a cent for each amount shown, the cash shown
\* plus the sum of the row values shown.
C10_ServerValueIsDisplayedTotal ==
  \E v \in {compute_local_portfolio_value(Stringify(cash, stocks).value)} :
    ~v.raised
      => LET shown  == table.cashAmount[1] + RowsTotal(table.rows, 1)
             server == CentsOf(v.val, FALSE)
             slack  == Len(table.rows) + 1
         IN  server - shown <= slack /\ shown - server <= slack

\* A body that is missing, empty, or lacks cash, stocks, or a holding's
\* quantity or price.
Malformed(json) ==
  \/ json.kind = "none"
  \/ DOMAIN json.value = {}
  \/ "cash" \notin DOMAIN json.value
  \/ "stocks" \notin DOMAIN json.value
  \/ \E i \in 1..Len(json.value.stocks) :
       \/ "quantity" \notin DOMAIN json.value.stocks[i].data
       \/ "avg_price" \notin DOMAIN json.value.stocks[i].data

\* A body with every field, each a number.
ValidBody(json) ==
  /\ ~Malformed(json)
  /\ json.value.cash # None
  /\ \A i \in 1..Len(json.value.stocks) :
       \A f \in DOMAIN json.value.stocks[i].data : json.value.stocks[i].data[f] # None

\* The requests with a valid body that have been answered.
Served == {id \in 1..Len(requests) :
             requests[id].pc = "done" /\ ValidBody(requests[id].json)}

\* C5.  With requests handled one after another, the log holds one sample for
\* each valid request answered, and the request that appended the k-th sample
\* was answered with a chart of exactly k points.
C5_EachValidRequestAddsOneSample ==
  /\ Len(portfolio_history) = Cardinality(Served)
  /\ \A k \in 1..Len(portfolio_history) :
       /\ portfolio_history[k].now \in Served
       /\ requests[portfolio_history[k].now].response.status = OkStatus
       /\ Len(requests[portfolio_history[k].now].response.chart) = k

\* Two valid requests have been answered, the second with two points.
C5_Witness ==
  /\ Len(portfolio_history) = 2
  /\ Len(requests[portfolio_history[2].now].response.chart) = 2

\* C6.  A request whose body is missing or malformed is answered with the
\* empty chart.
C6_MalformedBodyGetsEmptyChart ==
  \A id \in 1..Len(requests) :
    requests[id].pc = "done" /\ Malformed(requests[id].json)
      => requests[id].response = EmptyChart

\* The places of request id's samples in the log.
SamplesOf(id) == {k \in 1..Len(portfolio_history) : portfolio_history[k].now = id}

\* A valid request has passed its append.
Appended(req) ==
  ValidBody(req.json) /\ req.pc \in {"appended", "times", "values", "done"}

\* The samples of the log stay, in place and unaltered.
AppendOnly ==
  /\ Len(portfolio_history') >= Len(portfolio_history)
  /\ \A k \in 1..Len(portfolio_history) : portfolio_history'[k] = portfolio_history[k]

\* C8.  With requests handled concurrently, the log is append-only, it holds
\* exactly one sample for each valid request that has passed its append and
\* none for any other, and every valid request answered has a chart that
\* includes its own sample.
C8_LogConsistentUnderInterleaving ==
  /\ [][AppendOnly]_vars
  /\ [](\A id \in 1..Len(requests) :
          Cardinality(SamplesOf(id)) = IF Appended(requests[id]) THEN 1 ELSE 0)
  /\ [](\A id \in Served :
          /\ requests[id].response.status = OkStatus
          /\ \E i \in 1..Len(requests[id].response.chart) :
               requests[id].response.chart[i] = <<strftime(id), requests[id].val>>)

====
